---- MODULE Spec2Model ----
(***************************************************************************)
(* The GTM -> Slack version watcher (getGtmInfo).  Two revisions of the     *)
(* Cloud Function are in the repository: src/index.js (the inline loop)     *)
(* and src/unnamed/part_000 (the loop refactored into addContainerToState   *)
(* and checkPublishedVersionIdAgainstState).  The variable impl says which  *)
(* revision a behaviour runs.                                               *)
(*                                                                          *)
(* One step of the model is one stretch of JavaScript between two awaits:   *)
(* the event loop runs such a stretch without interruption.                 *)
(*                                                                          *)
(* Three specifications: Spec (one invocation at a time), SpecRetry (the    *)
(* same, with the history of an aborted run kept into the next run) and     *)
(* SpecConc (two invocations interleaved at their awaits).                  *)
(*                                                                          *)
(* Input domain: a config section is either absent or an object/array (no   *)
(* null sections); container identifiers hold exactly one "_"; version ids  *)
(* are non-empty strings (modelled as 1..MaxVersion); the state object in   *)
(* the bucket is absent, unparsable, or a JSON object of account objects.   *)
(***************************************************************************)
EXTENDS Integers, Sequences, FiniteSets, TLC

\* ---------------------------------------------------------------- bounds
MaxVersion == 2
MaxTime == 2

\* --------------------------------------------------------------- helpers
Invocations == {"A", "B"}
Impls == {"index", "part_000"}

\* A JavaScript object is a function whose DOMAIN is its set of own keys.
EmptyObj == [k \in {} |-> 0]
Has(o, k) == k \in DOMAIN o
Put(o, k, v) == [x \in DOMAIN o \cup {k} |-> IF x = k THEN v ELSE o[x]]

\* String.prototype.split('_') followed by [accountId, containerId] = ...
\* A string is a sequence of characters.
SepAt(s) == {k \in 1..Len(s) : s[k] = "_"}
MinOf(S) == CHOOSE m \in S : \A x \in S : m <= x
AccountIdOf(s) ==
  IF SepAt(s) = {} THEN s ELSE SubSeq(s, 1, MinOf(SepAt(s)) - 1)
ContainerIdOf(s) ==
  LET rest == SubSeq(s, MinOf(SepAt(s)) + 1, Len(s))
  IN  IF SepAt(rest) = {} THEN rest ELSE SubSeq(rest, 1, MinOf(SepAt(rest)) - 1)

\* ---------------------------------------------------------------- config
Acct1 == <<"7">>
Acct2 == <<"8">>
Cont1 == <<"1">>
Cont2 == <<"2">>
Name(a, c) == a \o <<"_">> \o c
Ctr1 == Name(Acct1, Cont1)
Ctr2 == Name(Acct1, Cont2)

Entry(url, list) == [slackWebhookUrl |-> url, gtmContainers |-> list]

\* The slackOutput arrays tried: valid ones (two containers under one
\* webhook; one container under two webhooks; an entry whose container list
\* is empty, then a real one) and invalid ones.
ValidSlackOutputs ==
  { << Entry("W1", <<Ctr1, Ctr2>>) >>,
    << Entry("W1", <<Ctr1>>), Entry("W2", <<Ctr1>>) >>,
    << Entry("W1", <<>>), Entry("W2", <<Ctr2>>) >> }
InvalidSlackOutputs ==
  { <<>>,
    << Entry("", <<Ctr1>>) >>,
    << [gtmContainers |-> <<Ctr1>>] >>,
    << Entry("W1", <<Ctr1>>), [slackWebhookUrl |-> "W2"] >> }
SlackOutputs == ValidSlackOutputs \cup InvalidSlackOutputs

GcsOptions ==
  { [bucketName |-> "b", fileName |-> "f"],
    [bucketName |-> "b"],
    [fileName |-> "f"],
    EmptyObj }

Configs ==
  { [gcs |-> g, slackOutput |-> s] : g \in GcsOptions, s \in SlackOutputs }
    \cup { [gcs |-> g] : g \in GcsOptions }
    \cup { [slackOutput |-> s] : s \in SlackOutputs }
    \cup { EmptyObj }

\* s['slackWebhookUrl'] && s['gtmContainers'] : a missing key is undefined
\* (falsy), '' is falsy, every array (also the empty one) is truthy.
ItemOk(s) ==
  /\ Has(s, "slackWebhookUrl") /\ s["slackWebhookUrl"] # ""
  /\ Has(s, "gtmContainers")

\* validateConfig with the fileName test looking at bucketName again.
ValidationCodesBucketTwice(cfg) ==
  (IF ~Has(cfg, "gcs") THEN {"config_missing_gcs"} ELSE {})
  \cup (IF Has(cfg, "gcs") /\ ~Has(cfg["gcs"], "bucketName")
          THEN {"config_missing_gcs_bucketName"} ELSE {})
  \cup (IF Has(cfg, "gcs") /\ ~Has(cfg["gcs"], "bucketName")
          THEN {"config_missing_gcs_fileName"} ELSE {})
  \cup (IF ~Has(cfg, "slackOutput") THEN {"config_missing_slackOutput"} ELSE {})
  \cup (IF Has(cfg, "slackOutput") /\ Len(cfg["slackOutput"]) = 0
          THEN {"config_missing_slackOutput_items"} ELSE {})
  \cup (IF Has(cfg, "slackOutput")
           /\ Cardinality({k \in 1..Len(cfg["slackOutput"]) : ItemOk(cfg["slackOutput"][k])})
                # Len(cfg["slackOutput"])
          THEN {"invalid_items_in_slackOutput"} ELSE {})

\* validateConfig: the set of codes appended to msg.
ValidationCodes(cfg) ==
  (IF ~Has(cfg, "gcs") THEN {"config_missing_gcs"} ELSE {})
  \cup (IF Has(cfg, "gcs") /\ ~Has(cfg["gcs"], "bucketName")
          THEN {"config_missing_gcs_bucketName"} ELSE {})
  \cup (IF Has(cfg, "gcs") /\ ~Has(cfg["gcs"], "fileName")
          THEN {"config_missing_gcs_fileName"} ELSE {})
  \cup (IF ~Has(cfg, "slackOutput") THEN {"config_missing_slackOutput"} ELSE {})
  \cup (IF Has(cfg, "slackOutput") /\ Len(cfg["slackOutput"]) = 0
          THEN {"config_missing_slackOutput_items"} ELSE {})
  \cup (IF Has(cfg, "slackOutput")
           /\ Cardinality({k \in 1..Len(cfg["slackOutput"]) : ItemOk(cfg["slackOutput"][k])})
                # Len(cfg["slackOutput"])
          THEN {"invalid_items_in_slackOutput"} ELSE {})

validateConfig(cfg) ==
  [error |-> ValidationCodes(cfg) # {}, errorMessage |-> ValidationCodes(cfg)]

\* ------------------------------------------------------------ state file
\* A stringify whose replacer keeps the version ids only.
StringifyVersionsOnly(st) ==
  [accts |-> DOMAIN st,
   conts |-> UNION { {<<a, c>> : c \in DOMAIN st[a]} : a \in DOMAIN st },
   fields |-> UNION { UNION { {<<a, c, f, st[a][c][f]>> :
                                 f \in DOMAIN st[a][c] \cap {"containerVersionId"}}
                               : c \in DOMAIN st[a] } : a \in DOMAIN st }]

\* JSON.stringify(gtmState, null, " "): the text, as the set of its paths.
Stringify(st) ==
  [accts |-> DOMAIN st,
   conts |-> UNION { {<<a, c>> : c \in DOMAIN st[a]} : a \in DOMAIN st },
   fields |-> UNION { UNION { {<<a, c, f, st[a][c][f]>> : f \in DOMAIN st[a][c]}
                               : c \in DOMAIN st[a] } : a \in DOMAIN st }]

\* JSON.parse of such a text.
Parse(doc) ==
  [a \in doc.accts |->
    [c \in {x[2] : x \in {y \in doc.conts : y[1] = a}} |->
      [f \in {x[3] : x \in {y \in doc.fields : y[1] = a /\ y[2] = c}} |->
        (CHOOSE x \in doc.fields : x[1] = a /\ x[2] = c /\ x[3] = f)[4]]]]

NoObject == [kind |-> "none", doc |-> Stringify(EmptyObj)]
Garbage == [kind |-> "garbage", doc |-> Stringify(EmptyObj)]
JsonObject(st) == [kind |-> "json", doc |-> Stringify(st)]

Rec(v, t) == [containerVersionId |-> v, lastChecked |-> t]
\* A state object written by a run under an earlier configuration.
WrittenEarlier ==
  JsonObject(Put(Put(EmptyObj, Acct1, Put(EmptyObj, Cont1, Rec(1, 1))),
                 Acct2, Put(EmptyObj, Cont1, Rec(1, 1))))
\* What the bucket may hold before the first run: nothing, an unparsable
\* text, a record with only lastChecked or only containerVersionId (edited
\* by hand), and records written by an earlier run, one of them of an
\* account that no configuration of the model lists.
InitialObjects ==
  { NoObject, Garbage,
    JsonObject(Put(EmptyObj, Acct1, Put(EmptyObj, Cont1, [lastChecked |-> 1]))),
    JsonObject(Put(EmptyObj, Acct1, Put(EmptyObj, Cont1, [containerVersionId |-> 1]))),
    WrittenEarlier }

\* ----------------------------------------------------------------- state
VARIABLES
  impl,       \* which revision of getGtmInfo runs
  config,     \* require('./config.json')
  clock,      \* new Date().getTime()
  live,       \* Tag Manager: the live version id of each container
  durable,    \* the state object in the bucket
  webhooks,   \* the module-level registry: url -> IncomingWebhook(url)
  pc,         \* per invocation: the await it is suspended at
  gtmState,   \* per invocation: the in-memory state object
  pos,        \* per invocation: <<index in slackOutput, index in gtmContainers>>
  pending,    \* per invocation: the message handed to webhooks[url].send
  cause,      \* per invocation: the call whose rejection ended it
  calls,      \* per invocation: the remote calls it issued and its record updates, in order
  sent,       \* per invocation: the messages Slack accepted
  checks,     \* per invocation: the container checks it completed
  cur,        \* per invocation: the record as the current check found it
  atStart,    \* per invocation: the bucket's object when it was triggered
  loadFailed, \* per invocation: the catch block of the state load ran
  calm,       \* runs since the last publish: 0, 1 (this one), 2 (and the one before, which succeeded)
  uploaded,   \* history: the last mapping a save wrote, and who wrote it (<<>> before the first)
  overlap,    \* history, per invocation: its run and the other invocation's run overlapped
  owed,       \* history, per invocation: what its previous run told Slack, if that run was aborted
  stale       \* history: the notified versions that the last save replaced by older ones

envVars == <<impl, config, clock, live, durable, webhooks>>
invVars == <<pc, gtmState, pos, pending, cause, calls, sent, checks, cur, atStart, loadFailed>>
history == <<uploaded, overlap, owed, stale>>
vars == <<envVars, invVars, calm, history>>

Keys == {<<Acct1, Cont1>>, <<Acct1, Cont2>>}
NoCur == [had |-> FALSE, rec |-> EmptyObj]

Init ==
  /\ impl \in Impls
  /\ config \in Configs
  /\ clock = 1
  /\ live = [k \in Keys |-> 1]
  /\ durable \in InitialObjects
  /\ webhooks = EmptyObj
  /\ pc = [p \in Invocations |-> "idle"]
  /\ gtmState = [p \in Invocations |-> EmptyObj]
  /\ pos = [p \in Invocations |-> <<1, 0>>]
  /\ pending = [p \in Invocations |-> <<>>]
  /\ cause = [p \in Invocations |-> "none"]
  /\ calls = [p \in Invocations |-> <<>>]
  /\ sent = [p \in Invocations |-> <<>>]
  /\ checks = [p \in Invocations |-> <<>>]
  /\ cur = [p \in Invocations |-> NoCur]
  /\ atStart = [p \in Invocations |-> durable]
  /\ loadFailed = [p \in Invocations |-> FALSE]
  /\ calm = 0
  /\ uploaded = <<>>
  /\ overlap = [p \in Invocations |-> FALSE]
  /\ owed = [p \in Invocations |-> {}]
  /\ stale = {}

\* ------------------------------------------------------------ the loops
ListOf(so, i) == so[i]["gtmContainers"]
\* An outer loop that takes the entries from the last one.
MaxOf(S) == CHOOSE m \in S : \A x \in S : m >= x
FirstFromLast(so, i) ==
  LET S == {x \in i..Len(so) : Len(ListOf(so, x)) > 0}
  IN  IF S = {} \/ i > 1 THEN <<Len(so) + 1, 0>> ELSE <<MaxOf(S), 1>>

\* for (const slack of config['slackOutput']) from entry i on: the first
\* entry whose inner loop has a first iteration, or past the end.
FirstFrom(so, i) ==
  LET S == {x \in i..Len(so) : Len(ListOf(so, x)) > 0}
  IN  IF S = {} THEN <<Len(so) + 1, 0>> ELSE <<MinOf(S), 1>>
\* The iteration after <<i, j>>.
NextPos(so, q) ==
  IF q[2] < Len(ListOf(so, q[1])) THEN <<q[1], q[2] + 1>> ELSE FirstFrom(so, q[1] + 1)
\* An outer loop that stops one entry early.
AtEndEarly(so, q) == q[1] >= Len(so)
AtEnd(so, q) == q[1] > Len(so)
KeyAt(so, q) ==
  <<AccountIdOf(ListOf(so, q[1])[q[2]]), ContainerIdOf(ListOf(so, q[1])[q[2]])>>
UrlAt(so, q) == so[q[1]]["slackWebhookUrl"]
\* webhooks[webHookUrl] = new IncomingWebhook(webHookUrl), for every entry
\* the outer loop has entered on its way to q.
Registered(reg, so, q) ==
  LET upto == IF AtEnd(so, q) THEN Len(so) ELSE q[1]
      urls == {so[x]["slackWebhookUrl"] : x \in 1..upto}
  IN  [u \in DOMAIN reg \cup urls |-> u]

\* ------------------------------------------------- the state transitions
\* An addContainerToState that builds the account's object anew.
addContainerToStateAnew(st, a, c) ==
  Put(st, a, Put(EmptyObj, c, IF Has(st, a) /\ Has(st[a], c) THEN st[a][c] ELSE EmptyObj))

addContainerToState(st, a, c) ==
  LET s1 == IF ~Has(st, a) THEN Put(st, a, EmptyObj) ELSE st
  IN  Put(s1, a, Put(s1[a], c, IF Has(s1[a], c) THEN s1[a][c] ELSE EmptyObj))

\* index.js: a missing account or container entry is created holding the
\* fetched id.
EnsureEntry(st, a, c, id) ==
  LET s1 == IF ~Has(st, a) THEN Put(st, a, EmptyObj) ELSE st
  IN  IF ~Has(s1[a], c) THEN Put(s1, a, Put(s1[a], c, [containerVersionId |-> id]))
      ELSE s1

SetField(st, a, c, f, v) == Put(st, a, Put(st[a], c, Put(st[a][c], f, v)))

\* The state object as the comparison finds it, once the fetch has returned.
Prepared(st, key, id) ==
  IF impl = "index" THEN EnsureEntry(st, key[1], key[2], id) ELSE st

\* A comparison that has === where the code has !==.
NeedsNotifyWhenSame(rec, id) ==
  Has(rec, "containerVersionId") /\ rec["containerVersionId"] = id

\* Whether the check sends a Slack message.
\* index.js: state id !== fetched id (undefined !== id when the field is missing).
\* part_000: the field is there and differs.
NeedsNotify(rec, id) ==
  IF impl = "index"
    THEN ~Has(rec, "containerVersionId") \/ rec["containerVersionId"] # id
    ELSE Has(rec, "containerVersionId") /\ rec["containerVersionId"] # id

\* An update that forgets lastChecked.
UpdatedVersionOnly(st, key, id, now) ==
  SetField(st, key[1], key[2], "containerVersionId", id)

\* An update that forgets the version id.
UpdatedTimeOnly(st, key, id, now) ==
  SetField(st, key[1], key[2], "lastChecked", now)

\* The record's update that ends a check: the version id, then lastChecked.
Updated(st, key, id, now) ==
  SetField(SetField(st, key[1], key[2], "containerVersionId", id),
           key[1], key[2], "lastChecked", now)

\* A message whose "since" is taken after the record's update.
MessageAfterUpdate(q, url, key, id, rec) ==
  [pos |-> q, to |-> webhooks[url], key |-> key, id |-> id, lastChecked |-> {clock}]

\* sendSlackMessage(webhook, versionId, containerId, lastChecked): the
\* arguments of the call.  lastChecked is a set: empty when the record has
\* no such field (the argument is undefined).
Message(q, url, key, id, rec) ==
  [pos |-> q, to |-> webhooks[url], key |-> key, id |-> id,
   lastChecked |-> IF Has(rec, "lastChecked") THEN {rec["lastChecked"]} ELSE {}]

\* The loop head at iteration q with state st: either the next check starts
\* (its fetch is issued) or the loops are over and the save is issued.
\* done is what the stretch did before it got here, for the log.
Continue(p, done, st, q) ==
  LET so == config["slackOutput"] IN
  /\ pos' = [pos EXCEPT ![p] = q]
  /\ webhooks' = Registered(webhooks, so, q)
  /\ IF AtEnd(so, q)
       THEN /\ pc' = [pc EXCEPT ![p] = "saving"]
            /\ gtmState' = [gtmState EXCEPT ![p] = st]
            /\ calls' = [calls EXCEPT ![p] = Append(@ \o done, <<"save", q>>)]
            /\ cur' = [cur EXCEPT ![p] = NoCur]
       ELSE LET key == KeyAt(so, q)
                had == Has(st, key[1]) /\ Has(st[key[1]], key[2])
            IN  /\ pc' = [pc EXCEPT ![p] = "fetching"]
                /\ gtmState' = [gtmState EXCEPT ![p] =
                     IF impl = "index" THEN st
                     ELSE addContainerToState(st, key[1], key[2])]
                /\ calls' = [calls EXCEPT ![p] = Append(@ \o done, <<"fetch", q>>)]
                /\ cur' = [cur EXCEPT ![p] =
                     [had |-> had, rec |-> IF had THEN st[key[1]][key[2]] ELSE EmptyObj]]

Terminal(p) == pc[p] \in {"idle", "done", "aborted", "rejected"}

\* History: the versions p's run told Slack about before it was aborted,
\* each with whether the bucket, when that run was triggered, held another
\* version id for the container.
Owed(p) ==
  IF pc[p] # "aborted" THEN {}
  ELSE { [key |-> sent[p][n].key, id |-> sent[p][n].id,
          stored |-> /\ atStart[p].kind = "json"
                     /\ \E x \in atStart[p].doc.fields :
                          /\ x[1] = sent[p][n].key[1] /\ x[2] = sent[p][n].key[2]
                          /\ x[3] = "containerVersionId" /\ x[4] # sent[p][n].id] :
         n \in 1..Len(sent[p]) }

\* History: p is triggered while the runs in others are under way.
Overlapping(p) ==
  LET others == {q \in Invocations \ {p} : ~Terminal(q)}
  IN  [x \in Invocations |->
        IF x = p THEN others # {} ELSE IF x \in others THEN TRUE ELSE overlap[x]]

\* A trigger that logs the validation error and goes on.
StartIgnoringError(p) ==
  /\ Terminal(p)
  /\ calm' = IF calm >= 1 /\ pc[p] = "done" THEN 2 ELSE 1
  /\ gtmState' = [gtmState EXCEPT ![p] = EmptyObj]
  /\ pos' = [pos EXCEPT ![p] = <<1, 0>>]
  /\ pending' = [pending EXCEPT ![p] = <<>>]
  /\ cause' = [cause EXCEPT ![p] = "none"]
  /\ sent' = [sent EXCEPT ![p] = <<>>]
  /\ checks' = [checks EXCEPT ![p] = <<>>]
  /\ cur' = [cur EXCEPT ![p] = NoCur]
  /\ atStart' = [atStart EXCEPT ![p] = durable]
  /\ loadFailed' = [loadFailed EXCEPT ![p] = FALSE]
  /\ overlap' = Overlapping(p)
  /\ owed' = [owed EXCEPT ![p] = {}]
  /\ pc' = [pc EXCEPT ![p] = "loading"]
  /\ calls' = [calls EXCEPT ![p] = <<<<"download", <<0, 0>>>>>>]
  /\ UNCHANGED <<envVars, uploaded, stale>>

\* The trigger fires: validateConfig, then either return or start the
\* download.  o is what the history keeps of the run that ended.
Trigger(p, o) ==
  /\ Terminal(p)
  /\ calm' = IF calm >= 1 /\ pc[p] = "done" THEN 2 ELSE 1
  /\ gtmState' = [gtmState EXCEPT ![p] = EmptyObj]
  /\ pos' = [pos EXCEPT ![p] = <<1, 0>>]
  /\ pending' = [pending EXCEPT ![p] = <<>>]
  /\ cause' = [cause EXCEPT ![p] = "none"]
  /\ sent' = [sent EXCEPT ![p] = <<>>]
  /\ checks' = [checks EXCEPT ![p] = <<>>]
  /\ cur' = [cur EXCEPT ![p] = NoCur]
  /\ atStart' = [atStart EXCEPT ![p] = durable]
  /\ loadFailed' = [loadFailed EXCEPT ![p] = FALSE]
  /\ overlap' = Overlapping(p)
  /\ owed' = [owed EXCEPT ![p] = o]
  /\ IF validateConfig(config).error
       THEN /\ pc' = [pc EXCEPT ![p] = "rejected"]
            /\ calls' = [calls EXCEPT ![p] = <<>>]
       ELSE /\ pc' = [pc EXCEPT ![p] = "loading"]
            /\ calls' = [calls EXCEPT ![p] = <<<<"download", <<0, 0>>>>>>]
  /\ UNCHANGED <<envVars, uploaded, stale>>

Start(p) == Trigger(p, {})
\* The same trigger, with the history of the aborted run kept.
StartAfter(p) == Trigger(p, Owed(p))

Abort(p, why) ==
  /\ pc' = [pc EXCEPT ![p] = "aborted"]
  /\ cause' = [cause EXCEPT ![p] = why]

\* A state load without the try/catch: a failed load ends the run.
LoadStateNoCatch(p) ==
  /\ pc[p] = "loading"
  /\ \/ /\ durable.kind = "json"
        /\ gtmState' = [gtmState EXCEPT ![p] = Parse(durable.doc)]
        /\ pc' = [pc EXCEPT ![p] = "auth"]
        /\ UNCHANGED <<loadFailed, cause>>
     \/ /\ loadFailed' = [loadFailed EXCEPT ![p] = TRUE]
        /\ Abort(p, "load")
        /\ UNCHANGED gtmState
  /\ UNCHANGED <<envVars, pos, pending, calls, sent, checks, cur, atStart, calm, history>>

\* The try block: download, readFile, JSON.parse; the catch block keeps {}.
LoadState(p) ==
  /\ pc[p] = "loading"
  /\ \/ /\ durable.kind = "json"
        /\ gtmState' = [gtmState EXCEPT ![p] = Parse(durable.doc)]
        /\ UNCHANGED loadFailed
     \/ /\ loadFailed' = [loadFailed EXCEPT ![p] = TRUE]
        /\ UNCHANGED gtmState
  /\ pc' = [pc EXCEPT ![p] = "auth"]
  /\ UNCHANGED <<envVars, pos, pending, cause, calls, sent, checks, cur, atStart, calm, history>>

\* await auth.getClient(), then the loops start.
AuthReturn(p) ==
  /\ pc[p] = "auth"
  /\ \/ /\ Abort(p, "auth")
        /\ UNCHANGED <<webhooks, gtmState, pos, calls, cur>>
     \/ /\ Continue(p, <<>>, gtmState[p], FirstFrom(config["slackOutput"], 1))
        /\ UNCHANGED cause
  /\ UNCHANGED <<impl, config, clock, live, durable, pending, sent, checks, atStart, loadFailed, calm, history>>

\* A check whose update is made on a copy: the loop goes on with the
\* mapping as it was before the update.
FinishCheckOnCopy(p, st, key, id) ==
  LET st2 == Updated(st, key, id, clock) IN
  /\ checks' = [checks EXCEPT ![p] = Append(@,
       [pos |-> pos[p], key |-> key, had |-> cur[p].had, before |-> cur[p].rec,
        fetched |-> id, after |-> st2[key[1]][key[2]], at |-> clock])]
  /\ Continue(p, << <<"update", pos[p]>> >>, st, NextPos(config["slackOutput"], pos[p]))

\* The end of a check: the record is updated, the check is logged, and the
\* loop goes on.
FinishCheck(p, st, key, id) ==
  LET st2 == Updated(st, key, id, clock) IN
  /\ checks' = [checks EXCEPT ![p] = Append(@,
       [pos |-> pos[p], key |-> key, had |-> cur[p].had, before |-> cur[p].rec,
        fetched |-> id, after |-> st2[key[1]][key[2]], at |-> clock])]
  /\ Continue(p, << <<"update", pos[p]>> >>, st2, NextPos(config["slackOutput"], pos[p]))

\* versions.live() returns or rejects; on a result the comparison runs.
FetchReturn(p) ==
  /\ pc[p] = "fetching"
  /\ \/ /\ Abort(p, "fetch")
        /\ UNCHANGED <<webhooks, gtmState, pos, pending, calls, checks, cur>>
     \/ LET key == KeyAt(config["slackOutput"], pos[p])
            id == live[key]
            st == Prepared(gtmState[p], key, id)
            rec == st[key[1]][key[2]]
        IN  IF NeedsNotify(rec, id)
              THEN /\ pc' = [pc EXCEPT ![p] = "sending"]
                   /\ gtmState' = [gtmState EXCEPT ![p] = st]
                   /\ pending' = [pending EXCEPT ![p] =
                        <<Message(pos[p], UrlAt(config["slackOutput"], pos[p]), key, id, rec)>>]
                   /\ calls' = [calls EXCEPT ![p] = Append(@, <<"send", pos[p]>>)]
                   /\ UNCHANGED <<webhooks, pos, cause, checks, cur>>
              ELSE /\ FinishCheck(p, st, key, id)
                   /\ UNCHANGED <<pending, cause>>
  /\ UNCHANGED <<impl, config, clock, live, durable, sent, atStart, loadFailed, calm, history>>

\* sendSlackMessage returns or rejects: webhooks[url].send() rejects, or
\* (with a lastChecked that is undefined) the formatting of the elapsed
\* time throws before the call.
SendReturn(p) ==
  /\ pc[p] = "sending"
  /\ \/ /\ Abort(p, "send")
        /\ UNCHANGED <<webhooks, gtmState, pos, pending, calls, sent, checks, cur>>
     \/ /\ sent' = [sent EXCEPT ![p] = Append(@, pending[p][1])]
        /\ pending' = [pending EXCEPT ![p] = <<>>]
        /\ FinishCheck(p, gtmState[p], pending[p][1].key, pending[p][1].id)
        /\ UNCHANGED cause
  /\ UNCHANGED <<impl, config, clock, live, durable, atStart, loadFailed, calm, history>>

\* History: what p's save writes.
Uploaded(p) == <<[by |-> p, state |-> gtmState[p]]>>

\* History: the versions that p's save replaces in the bucket by older
\* ones, out of those that the invocation that wrote them had told Slack
\* about in its run.
Stale(p) ==
  IF uploaded = <<>> \/ durable.kind # "json" THEN {}
  ELSE LET by == uploaded[1].by IN
       { <<<<x[1], x[2]>>, x[4]>> :
           x \in { x \in durable.doc.fields :
                     /\ x[3] = "containerVersionId"
                     /\ \E y \in Stringify(gtmState[p]).fields :
                          /\ y[1] = x[1] /\ y[2] = x[2] /\ y[3] = x[3] /\ y[4] < x[4]
                     /\ by # p /\ pc[by] = "done"
                     /\ \E n \in 1..Len(sent[by]) :
                          sent[by][n].key = <<x[1], x[2]>> /\ sent[by][n].id = x[4] } }

\* A save that has written the object when it rejects.
SaveReturnPartial(p) ==
  /\ pc[p] = "saving"
  /\ \/ /\ Abort(p, "save")
        /\ durable' = JsonObject(gtmState[p])
        /\ uploaded' = Uploaded(p)
        /\ stale' = Stale(p)
     \/ /\ durable' = JsonObject(gtmState[p])
        /\ uploaded' = Uploaded(p)
        /\ stale' = Stale(p)
        /\ pc' = [pc EXCEPT ![p] = "done"]
        /\ UNCHANGED cause
  /\ UNCHANGED <<impl, config, clock, live, webhooks, gtmState, pos, pending, calls,
                 sent, checks, cur, atStart, loadFailed, calm, overlap, owed>>

\* A save with a version check: it leaves the object alone when the object
\* holds a newer version id than the one being saved.
StoredNewer(p) ==
  /\ durable.kind = "json"
  /\ \E x \in durable.doc.fields : \E y \in Stringify(gtmState[p]).fields :
       /\ x[1] = y[1] /\ x[2] = y[2]
       /\ x[3] = "containerVersionId" /\ y[3] = "containerVersionId"
       /\ x[4] > y[4]
SaveReturnIfNewer(p) ==
  /\ pc[p] = "saving"
  /\ \/ /\ Abort(p, "save")
        /\ UNCHANGED <<durable, uploaded, stale>>
     \/ /\ durable' = IF StoredNewer(p) THEN durable ELSE JsonObject(gtmState[p])
        /\ uploaded' = Uploaded(p)
        /\ stale' = Stale(p)
        /\ pc' = [pc EXCEPT ![p] = "done"]
        /\ UNCHANGED cause
  /\ UNCHANGED <<impl, config, clock, live, webhooks, gtmState, pos, pending, calls,
                 sent, checks, cur, atStart, loadFailed, calm, overlap, owed>>

\* A save that merges: records of the stored object that the mapping being
\* saved does not have are kept.
MergedDoc(old, new) ==
  [accts |-> old.accts \cup new.accts,
   conts |-> old.conts \cup new.conts,
   fields |-> new.fields \cup
     {x \in old.fields : ~\E y \in new.fields : y[1] = x[1] /\ y[2] = x[2] /\ y[3] = x[3]}]
SaveReturnMerging(p) ==
  /\ pc[p] = "saving"
  /\ \/ /\ Abort(p, "save")
        /\ UNCHANGED <<durable, uploaded, stale>>
     \/ /\ durable' = [kind |-> "json",
                        doc |-> IF durable.kind = "json"
                                  THEN MergedDoc(durable.doc, Stringify(gtmState[p]))
                                  ELSE Stringify(gtmState[p])]
        /\ uploaded' = Uploaded(p)
        /\ stale' = Stale(p)
        /\ pc' = [pc EXCEPT ![p] = "done"]
        /\ UNCHANGED cause
  /\ UNCHANGED <<impl, config, clock, live, webhooks, gtmState, pos, pending, calls,
                 sent, checks, cur, atStart, loadFailed, calm, overlap, owed>>

\* file.save() returns or rejects.
SaveReturn(p) ==
  /\ pc[p] = "saving"
  /\ \/ /\ Abort(p, "save")
        /\ UNCHANGED <<durable, uploaded, stale>>
     \/ /\ durable' = JsonObject(gtmState[p])
        /\ uploaded' = Uploaded(p)
        /\ stale' = Stale(p)
        /\ pc' = [pc EXCEPT ![p] = "done"]
        /\ UNCHANGED cause
  /\ UNCHANGED <<impl, config, clock, live, webhooks, gtmState, pos, pending, calls,
                 sent, checks, cur, atStart, loadFailed, calm, overlap, owed>>

\* ------------------------------------------------------- the environment
\* The containers the configuration lists.
ConfiguredKeys ==
  IF validateConfig(config).error THEN {}
  ELSE UNION { {KeyAt(config["slackOutput"], <<i, j>>) :
                  j \in 1..Len(ListOf(config["slackOutput"], i))} :
               i \in 1..Len(config["slackOutput"]) }

\* Somebody publishes a version of a watched container: it gets the next id.
Publish ==
  /\ \E key \in ConfiguredKeys :
       /\ live[key] < MaxVersion
       /\ live' = [live EXCEPT ![key] = live[key] + 1]
  /\ calm' = 0
  /\ UNCHANGED <<impl, config, clock, durable, webhooks, invVars, history>>

\* Time passes.  The model reads the clock when a check ends (the new
\* lastChecked) and at no other moment, so the ticks that tell behaviours apart are the ones that happen
\* while a check waits for its fetch: a tick at any other moment is the same
\* as a tick at the start of the next check.
Tick ==
  /\ clock < MaxTime
  /\ \E p \in Invocations : pc[p] = "fetching"
  /\ clock' = clock + 1
  /\ UNCHANGED <<impl, config, live, durable, webhooks, invVars, calm, history>>

Run(p) ==
  \/ Start(p)
  \/ LoadState(p)
  \/ AuthReturn(p)
  \/ FetchReturn(p)
  \/ SendReturn(p)
  \/ SaveReturn(p)

\* One invocation at a time: the trigger fires again only after the run
\* ended (invocation "B" stays idle).
Next == Run("A") \/ Publish \/ Tick
Spec == Init /\ [][Next]_vars

\* One invocation at a time, with the history of an aborted run kept into
\* the run that follows it, on the valid configurations with one container.
InitRetry ==
  /\ Init
  /\ ~validateConfig(config).error
  /\ Cardinality(ConfiguredKeys) = 1
Retry ==
  \/ StartAfter("A")
  \/ LoadState("A")
  \/ AuthReturn("A")
  \/ FetchReturn("A")
  \/ SendReturn("A")
  \/ SaveReturn("A")
NextRetry == Retry \/ Publish \/ Tick
SpecRetry == InitRetry /\ [][NextRetry]_vars

\* Two invocations whose runs may overlap: while invocation "A" is
\* triggered again and again, a second trigger starts invocation "B", once,
\* at any moment.  The configuration is a valid one, the bucket holds a
\* state object written earlier, and the clock stands still (the records of the two
\* invocations differ by their version ids).
InitConc ==
  /\ Init
  /\ config = [gcs |-> [bucketName |-> "b", fileName |-> "f"],
               slackOutput |-> << Entry("W1", <<>>), Entry("W2", <<Ctr2>>) >>]
  /\ durable = WrittenEarlier
Second ==
  \/ pc["B"] = "idle" /\ Start("B")
  \/ LoadState("B")
  \/ AuthReturn("B")
  \/ FetchReturn("B")
  \/ SendReturn("B")
  \/ SaveReturn("B")
NextConc == Run("A") \/ Second \/ Publish
SpecConc == InitConc /\ [][NextConc]_vars

\* ================================================================ claims
\* The messages Slack accepted during the check at iteration q.
SentAt(p, q) == SelectSeq(sent[p], LAMBDA m : m.pos = q)
CheckSet(p) == {checks[p][n] : n \in 1..Len(checks[p])}
HadVersion(ch) == Has(ch.before, "containerVersionId")

\* C1: a completed check that found a stored containerVersionId different
\* from the fetched one sent exactly one message, to the webhook of the
\* entry being processed, carrying the fetched version, and left the record
\* with the fetched id.
C1_ChangedVersionNotifiesOnce ==
  \A p \in Invocations : \A ch \in CheckSet(p) :
    (HadVersion(ch) /\ ch.before["containerVersionId"] # ch.fetched) =>
      /\ Len(SentAt(p, ch.pos)) = 1
      /\ SentAt(p, ch.pos)[1].to = UrlAt(config["slackOutput"], ch.pos)
      /\ SentAt(p, ch.pos)[1].key = ch.key
      /\ SentAt(p, ch.pos)[1].id = ch.fetched
      /\ Has(ch.after, "containerVersionId")
      /\ ch.after["containerVersionId"] = ch.fetched

C1_Witness ==
  \E p \in Invocations : \E ch \in CheckSet(p) :
    /\ HadVersion(ch) /\ ch.before["containerVersionId"] # ch.fetched
    /\ Len(SentAt(p, ch.pos)) = 1

\* C2: a completed check that found the stored containerVersionId equal to
\* the fetched one sent no message and set lastChecked to the time of the
\* check.
C2_SameVersionSilent ==
  \A p \in Invocations : \A ch \in CheckSet(p) :
    (HadVersion(ch) /\ ch.before["containerVersionId"] = ch.fetched) =>
      /\ SentAt(p, ch.pos) = <<>>
      /\ Has(ch.after, "lastChecked")
      /\ ch.after["lastChecked"] = ch.at

\* The same version, found again at a later time than the stored lastChecked.
C2_Witness ==
  \E p \in Invocations : \E ch \in CheckSet(p) :
    /\ HadVersion(ch) /\ ch.before["containerVersionId"] = ch.fetched
    /\ Has(ch.before, "lastChecked") /\ ch.before["lastChecked"] < ch.at
    /\ ch.after["lastChecked"] = ch.at

\* C3: a completed check that found no stored containerVersionId (no
\* account entry, no container entry, or an entry without the field) sent no
\* message and left the record {containerVersionId: fetched, lastChecked: now}.
C3_FirstObservationSilent ==
  \A p \in Invocations : \A ch \in CheckSet(p) :
    ~HadVersion(ch) =>
      /\ SentAt(p, ch.pos) = <<>>
      /\ ch.after = Rec(ch.fetched, ch.at)

\* A completed check of a record that was there without the field.
C3_Witness ==
  \E p \in Invocations : \E ch \in CheckSet(p) : ~HadVersion(ch) /\ ch.had

\* C4: when validateConfig reports an error the run returns at once: no
\* remote call is issued, nothing is sent, the bucket's object and the
\* in-memory state are untouched.
C4_InvalidConfigDoesNothing ==
  \A p \in Invocations :
    (validateConfig(config).error /\ pc[p] # "idle") =>
      /\ pc[p] = "rejected"
      /\ calls[p] = <<>>
      /\ sent[p] = <<>>
      /\ gtmState[p] = EmptyObj
      /\ durable = atStart[p]

C4_Witness ==
  \E p \in Invocations : pc[p] = "rejected" /\ validateConfig(config).error

\* C5 as stated: a configuration without slackOutput, or with an entry
\* whose gtmContainers is empty or whose slackWebhookUrl is empty or
\* missing, is rejected with error = true, and no fetch and no send occurs.
ClaimedInvalid(cfg) ==
  \/ ~Has(cfg, "slackOutput")
  \/ \E k \in 1..Len(cfg["slackOutput"]) :
       LET e == cfg["slackOutput"][k] IN
       \/ ~Has(e, "slackWebhookUrl")
       \/ e["slackWebhookUrl"] = ""
       \/ Has(e, "gtmContainers") /\ Len(e["gtmContainers"]) = 0
RemoteChecks(p) == SelectSeq(calls[p], LAMBDA e : e[1] \in {"fetch", "send"})
C5_RejectsEmptyContainerList ==
  ClaimedInvalid(config) =>
    /\ validateConfig(config).error
    /\ \A p \in Invocations : RemoteChecks(p) = <<>>

\* C6: a rejected fetch, send or save ends the run as aborted, and the
\* bucket's object is then what it was when the run started, whatever the
\* run had already updated in memory.
C6_AbortLeavesDurableState ==
  \A p \in Invocations :
    /\ cause[p] # "none" => pc[p] = "aborted"
    /\ pc[p] = "aborted" => durable = atStart[p]

\* A run that aborts after a completed check changed the in-memory record.
C6_Witness ==
  \E p \in Invocations :
    /\ pc[p] = "aborted" /\ cause[p] \in {"fetch", "send", "save"}
    /\ \E ch \in CheckSet(p) : ch.after # ch.before
    /\ durable = atStart[p]

\* The iterations of the two loops, in the configured order.
RECURSIVE PositionsFrom(_, _)
PositionsFrom(so, i) ==
  IF i > Len(so) THEN <<>>
  ELSE [j \in 1..Len(ListOf(so, i)) |-> <<i, j>>] \o PositionsFrom(so, i + 1)
Positions == IF validateConfig(config).error THEN <<>> ELSE PositionsFrom(config["slackOutput"], 1)
\* The fetches and record updates of a run, in the order they happened.
Steps(p) == SelectSeq(calls[p], LAMBDA e : e[1] \in {"fetch", "update"})
Saves(p) == SelectSeq(calls[p], LAMBDA e : e[1] = "save")

\* C7: the fetches follow the configured order, the fetch of a container is
\* issued right after the update of the one before it, a send comes right
\* after the fetch of its own container, every container has been checked
\* when the save is issued, and a run aborted in a check has issued nothing
\* after the rejected call.
C7_SequentialInOrder ==
  LET all == Positions IN
  \A p \in Invocations :
    LET steps == Steps(p) IN
    /\ Len(steps) <= 2 * Len(all)
    /\ \A n \in 1..Len(steps) :
         steps[n] = <<IF n % 2 = 1 THEN "fetch" ELSE "update", all[(n + 1) \div 2]>>
    /\ \A x \in 1..Len(calls[p]) :
         calls[p][x][1] = "send" => x > 1 /\ calls[p][x - 1] = <<"fetch", calls[p][x][2]>>
    /\ Saves(p) # <<>> => Len(steps) = 2 * Len(all)
    /\ (pc[p] = "aborted" /\ cause[p] \in {"fetch", "send"}) =>
         /\ calls[p][Len(calls[p])] = <<cause[p], pos[p]>>
         /\ pos[p] = all[Len(checks[p]) + 1]

\* The check of the first container fails and a second one is configured.
C7_Witness ==
  \E p \in Invocations :
    /\ pc[p] = "aborted" /\ cause[p] \in {"fetch", "send"}
    /\ checks[p] = <<>>
    /\ Len(Positions) >= 2

\* C8: in a run that follows a successful run, with no version published
\* since that earlier run started, no message is sent.
C8_SecondRunSilent ==
  calm = 2 => \A p \in Invocations : sent[p] = <<>> /\ pc[p] # "sending"

\* The second run completed, on a container whose version had changed before.
C8_Witness ==
  /\ calm = 2
  /\ \E p \in Invocations :
       /\ pc[p] = "done"
       /\ \E ch \in CheckSet(p) : ch.fetched > 1

\* C9: a failed state load does not end the run: the run goes on from the
\* empty mapping, and when nothing else fails it has checked every
\* configured container and written the resulting state.
C9_LoadFailureStartsEmpty ==
  \A p \in Invocations :
    loadFailed[p] =>
      /\ pc[p] \in {"auth", "fetching", "sending", "saving", "done", "aborted"}
      /\ pc[p] = "aborted" => cause[p] \in {"auth", "fetch", "send", "save"}
      /\ pc[p] = "auth" => gtmState[p] = EmptyObj
      /\ checks[p] # <<>> => ~checks[p][1].had
      /\ pc[p] = "done" =>
           /\ Len(checks[p]) = Len(Positions)
           /\ durable.kind = "json"
           /\ Parse(durable.doc) = gtmState[p]
           /\ \A ch \in CheckSet(p) :
                /\ Has(gtmState[p], ch.key[1])
                /\ Has(gtmState[p][ch.key[1]], ch.key[2])

C9_Witness ==
  \E p \in Invocations :
    /\ loadFailed[p] /\ pc[p] = "done"
    /\ atStart[p].kind = "garbage"

\* C10: once every configured container has been checked the save has been
\* issued, exactly once and as the last call; it is never issued earlier;
\* and when it succeeds the bucket holds the whole in-memory mapping.
C10_OneUploadAtEnd ==
  LET all == Positions IN
  \A p \in Invocations :
    LET saves == Saves(p) IN
    /\ Len(saves) <= 1
    /\ saves # <<>> => Len(checks[p]) = Len(all)
    /\ (pc[p] \in {"fetching", "sending", "saving", "done", "aborted"}
          /\ cause[p] # "auth" /\ Len(checks[p]) = Len(all)) =>
         /\ Len(saves) = 1
         /\ calls[p][Len(calls[p])][1] = "save"
         /\ pc[p] \in {"saving", "done", "aborted"}
    /\ pc[p] = "done" =>
         /\ Len(saves) = 1
         /\ durable.kind = "json"
         /\ Parse(durable.doc) = gtmState[p]

\* A successful run in which every container had the version already stored.
C10_Witness ==
  \E p \in Invocations :
    /\ pc[p] = "done" /\ sent[p] = <<>> /\ checks[p] # <<>>
    /\ \A ch \in CheckSet(p) :
         HadVersion(ch) /\ ch.before["containerVersionId"] = ch.fetched
    /\ Parse(durable.doc) = gtmState[p]

\* The six conditions of the configuration, each with its code.
ConditionCodes(cfg) ==
  { c \in { "config_missing_gcs", "config_missing_gcs_bucketName",
            "config_missing_gcs_fileName", "config_missing_slackOutput",
            "config_missing_slackOutput_items", "invalid_items_in_slackOutput" } :
      \/ c = "config_missing_gcs" /\ "gcs" \notin DOMAIN cfg
      \/ c = "config_missing_gcs_bucketName"
           /\ "gcs" \in DOMAIN cfg /\ "bucketName" \notin DOMAIN cfg["gcs"]
      \/ c = "config_missing_gcs_fileName"
           /\ "gcs" \in DOMAIN cfg /\ "fileName" \notin DOMAIN cfg["gcs"]
      \/ c = "config_missing_slackOutput" /\ "slackOutput" \notin DOMAIN cfg
      \/ c = "config_missing_slackOutput_items"
           /\ "slackOutput" \in DOMAIN cfg /\ cfg["slackOutput"] = <<>>
      \/ c = "invalid_items_in_slackOutput"
           /\ "slackOutput" \in DOMAIN cfg
           /\ \E k \in DOMAIN cfg["slackOutput"] :
                LET e == cfg["slackOutput"][k] IN
                \/ "slackWebhookUrl" \notin DOMAIN e
                \/ e["slackWebhookUrl"] = ""
                \/ "gtmContainers" \notin DOMAIN e }

\* C12: validateConfig reports an error exactly when one of the six
\* conditions holds, errorMessage holds the code of every condition that
\* holds and of no other, and a triggered run is rejected exactly then.
C12_SixConditionsSixCodes ==
  LET v == validateConfig(config)
      holding == ConditionCodes(config)
  IN  /\ v.errorMessage = holding
      /\ v.error <=> holding # {}
      /\ \A p \in Invocations :
           /\ pc[p] = "rejected" => holding # {}
           /\ pc[p] \notin {"idle", "rejected"} => holding = {}

\* A rejected run whose configuration meets three conditions at once.
C12_Witness ==
  /\ \E p \in Invocations : pc[p] = "rejected"
  /\ Cardinality(validateConfig(config).errorMessage) = 3
  /\ "config_missing_gcs_fileName" \in validateConfig(config).errorMessage
  /\ "invalid_items_in_slackOutput" \in validateConfig(config).errorMessage

Finished(p) == pc[p] \in {"done", "aborted"}

\* C11: once two overlapping invocations have both finished, the bucket
\* holds exactly the mapping written by the save that succeeded last: every
\* record of it, and nothing of what the other invocation had in memory.
C11_LastWriterWins ==
  (uploaded # <<>> /\ \A p \in Invocations : Finished(p) /\ overlap[p]) =>
    LET u == uploaded[1] IN
    /\ durable.kind = "json"
    /\ durable = JsonObject(u.state)
    /\ Parse(durable.doc) = u.state
    /\ pc[u.by] = "done" => gtmState[u.by] = u.state

\* Both overlapping invocations saved, and the one that saved first held a
\* different version id for a container than the one that saved last.
C11_Witness ==
  /\ uploaded # <<>>
  /\ \A p \in Invocations : pc[p] = "done" /\ overlap[p]
  /\ Parse(durable.doc) = uploaded[1].state
  /\ \E q \in Invocations \ {uploaded[1].by} : \E key \in Keys :
       /\ Has(gtmState[q], key[1]) /\ Has(gtmState[q][key[1]], key[2])
       /\ Has(uploaded[1].state, key[1]) /\ Has(uploaded[1].state[key[1]], key[2])
       /\ gtmState[q][key[1]][key[2]]["containerVersionId"]
            # uploaded[1].state[key[1]][key[2]]["containerVersionId"]

\* C13: with one invocation at a time (nothing else writes the object), the
\* mapping a run has in memory right after a successful load equals, key by
\* key and field by field, the mapping the last successful save wrote.
C13_LoadReturnsWhatWasSaved ==
  \A p \in Invocations :
    (pc[p] = "auth" /\ ~loadFailed[p] /\ uploaded # <<>>) =>
      /\ gtmState[p] = uploaded[1].state
      /\ DOMAIN gtmState[p] = DOMAIN uploaded[1].state
      /\ \A a \in DOMAIN gtmState[p] : \A c \in DOMAIN gtmState[p][a] :
           gtmState[p][a][c] = uploaded[1].state[a][c]

\* A run has loaded what the run before it saved: a record with a version
\* id found in that run and the time of that check.
C13_Witness ==
  \E p \in Invocations :
    /\ pc[p] = "auth" /\ ~loadFailed[p] /\ uploaded # <<>>
    /\ gtmState[p] = uploaded[1].state
    /\ \E key \in Keys :
         /\ Has(gtmState[p], key[1]) /\ Has(gtmState[p][key[1]], key[2])
         /\ gtmState[p][key[1]][key[2]] = Rec(2, 2)

\* The last completed check of a container in p's run.
LastCheckOf(p, key) ==
  LET S == {n \in 1..Len(checks[p]) : checks[p][n].key = key}
  IN  checks[p][CHOOSE n \in S : \A x \in S : x <= n]

\* C14: after a successful run the bucket's record of every configured
\* container holds the version id fetched by the run's (last) check of that
\* container, whether or not it differed from the stored one, and a
\* lastChecked that is the time of that check, whether or not a message was
\* sent.
C14_SavedRecordsAreCurrent ==
  \A p \in Invocations :
    pc[p] = "done" =>
      LET st == Parse(durable.doc) IN
      \A key \in ConfiguredKeys :
        /\ \E ch \in CheckSet(p) : ch.key = key
        /\ Has(st, key[1]) /\ Has(st[key[1]], key[2])
        /\ Has(st[key[1]][key[2]], "containerVersionId")
        /\ Has(st[key[1]][key[2]], "lastChecked")
        /\ st[key[1]][key[2]]["containerVersionId"] = LastCheckOf(p, key).fetched
        /\ st[key[1]][key[2]]["lastChecked"] = LastCheckOf(p, key).at

\* A successful run with two containers: one whose version had changed (a
\* message was sent) and one whose version had not, both stamped in the run.
C14_Witness ==
  \E p \in Invocations :
    /\ pc[p] = "done"
    /\ \E c1, c2 \in CheckSet(p) :
         /\ c1.key # c2.key
         /\ HadVersion(c1) /\ c1.before["containerVersionId"] # c1.fetched
         /\ SentAt(p, c1.pos) # <<>>
         /\ SentAt(p, c2.pos) = <<>>
         /\ Parse(durable.doc)[c1.key[1]][c1.key[2]] = Rec(c1.fetched, c1.at)
         /\ Parse(durable.doc)[c2.key[1]][c2.key[2]] = Rec(c2.fetched, c2.at)

\* What sendSlackMessage gets for a record: its lastChecked, if it has one.
PreviousLastChecked(rec) ==
  IF Has(rec, "lastChecked") THEN {rec["lastChecked"]} ELSE {}
\* The index of the first entry e in p's log of calls (0 if there is none).
CallIndex(p, e) ==
  LET S == {n \in 1..Len(calls[p]) : calls[p][n] = e}
  IN  IF S = {} THEN 0 ELSE MinOf(S)

\* C15: the message of a check carries the lastChecked the record had when
\* the check began (nothing if it had none); while the send is pending the
\* record in memory still has its old lastChecked and containerVersionId;
\* and the send is issued before the record's update.
C15_MessageCarriesPreviousLastChecked ==
  \A p \in Invocations :
    /\ pc[p] = "sending" =>
         /\ Len(pending[p]) = 1
         /\ cur[p].had
         /\ pending[p][1].lastChecked = PreviousLastChecked(cur[p].rec)
         /\ Has(gtmState[p], pending[p][1].key[1])
         /\ Has(gtmState[p][pending[p][1].key[1]], pending[p][1].key[2])
         /\ gtmState[p][pending[p][1].key[1]][pending[p][1].key[2]] = cur[p].rec
    /\ \A ch \in CheckSet(p) : \A n \in 1..Len(sent[p]) :
         sent[p][n].pos = ch.pos =>
           /\ sent[p][n].lastChecked = PreviousLastChecked(ch.before)
           /\ CallIndex(p, <<"send", ch.pos>>) > 0
           /\ CallIndex(p, <<"send", ch.pos>>) < CallIndex(p, <<"update", ch.pos>>)

\* A message sent at time 2 about a record last checked at time 1: it
\* carries 1, and the record was stamped 2 afterwards.
C15_Witness ==
  \E p \in Invocations : \E ch \in CheckSet(p) :
    /\ Len(SentAt(p, ch.pos)) = 1
    /\ SentAt(p, ch.pos)[1].lastChecked = {1}
    /\ ch.at = 2
    /\ ch.after = Rec(ch.fetched, 2)

\* A send is pending for a record that had no lastChecked.
C15_AbsentReached ==
  \E p \in Invocations :
    pc[p] = "sending" /\ pending[p][1].lastChecked = {} /\ cur[p].had

\* C16: when a container is listed under two targets and both checks of a
\* run fetch the same version id, the later check sends nothing: a message
\* about that container goes to the webhook of the first-listed target
\* only.  This holds in every run, the ones that follow included.
C16_SecondTargetSilent ==
  \A p \in Invocations : \A c1, c2 \in CheckSet(p) :
    (c1.key = c2.key /\ c1.pos[1] < c2.pos[1] /\ c1.fetched = c2.fetched) =>
      /\ SentAt(p, c2.pos) = <<>>
      /\ \A n \in 1..Len(sent[p]) :
           sent[p][n].key = c1.key =>
             /\ sent[p][n].pos = c1.pos
             /\ sent[p][n].to = UrlAt(config["slackOutput"], c1.pos)
             /\ sent[p][n].to # UrlAt(config["slackOutput"], c2.pos)

\* A new version of a container listed under W1 and W2: the run told W1,
\* and its check under W2 was completed without a message.
C16_Witness ==
  \E p \in Invocations : \E c1, c2 \in CheckSet(p) :
    /\ c1.key = c2.key /\ c1.pos[1] < c2.pos[1] /\ c1.fetched = c2.fetched
    /\ HadVersion(c1) /\ c1.before["containerVersionId"] # c1.fetched
    /\ Len(SentAt(p, c1.pos)) = 1
    /\ SentAt(p, c1.pos)[1].to = "W1"
    /\ SentAt(p, c2.pos) = <<>>
    /\ UrlAt(config["slackOutput"], c2.pos) = "W2"
    /\ pc[p] = "done"

\* p's run has told Slack about version id of container key.
Told(p, key, id) == \E n \in 1..Len(sent[p]) : sent[p][n].key = key /\ sent[p][n].id = id

\* C17 as stated: a version that a run told Slack about before it was
\* aborted is told again by the next run, once that run has completed a
\* check of the container that fetched the same version.
C17_NextRunNotifiesAgain ==
  \A p \in Invocations : \A o \in owed[p] : \A ch \in CheckSet(p) :
    (ch.key = o.key /\ ch.fetched = o.id) => Told(p, o.key, o.id)

\* C17, amended: the same, for a run that loaded the state object, when
\* the object held another version id for the container as the aborted run
\* was triggered.
C17_NextRunNotifiesAgainFromStoredId ==
  \A p \in Invocations : \A o \in owed[p] : \A ch \in CheckSet(p) :
    (ch.key = o.key /\ ch.fetched = o.id /\ o.stored /\ ~loadFailed[p]) =>
      Told(p, o.key, o.id)

\* The run after an aborted one loaded the old state, fetched the version
\* the aborted run had told Slack about, and told Slack again.
C17_Witness ==
  \E p \in Invocations : \E o \in owed[p] : \E ch \in CheckSet(p) :
    /\ ch.key = o.key /\ ch.fetched = o.id /\ o.stored /\ ~loadFailed[p]
    /\ Len(SentAt(p, ch.pos)) = 1
    /\ SentAt(p, ch.pos)[1].id = o.id

\* The containers that have a record in mapping st.
RecordKeys(st) == UNION { {<<a, c>> : c \in DOMAIN st[a]} : a \in DOMAIN st }

\* C18: in a run that loaded the state object, with one invocation at a
\* time, every loaded record of a container the configuration does not list
\* stays in memory as it was loaded, and is in the bucket, unchanged, after
\* the run's save.
C18_UnlistedRecordsKept ==
  \A p \in Invocations :
    (~loadFailed[p] /\ pc[p] \in {"auth", "fetching", "sending", "saving", "done", "aborted"}) =>
      LET loaded == Parse(atStart[p].doc)
          saved == Parse(durable.doc)
      IN  \A key \in RecordKeys(loaded) \ ConfiguredKeys :
            /\ key \in RecordKeys(gtmState[p])
            /\ gtmState[p][key[1]][key[2]] = loaded[key[1]][key[2]]
            /\ pc[p] = "done" =>
                 /\ key \in RecordKeys(saved)
                 /\ saved[key[1]][key[2]] = loaded[key[1]][key[2]]

\* A successful run that created the record of its configured container
\* next to the loaded records of an unlisted container of the same account
\* and of an unlisted account.
C18_Witness ==
  \E p \in Invocations :
    /\ pc[p] = "done" /\ ~loadFailed[p]
    /\ <<Acct1, Cont1>> \in RecordKeys(Parse(atStart[p].doc)) \ ConfiguredKeys
    /\ <<Acct2, Cont1>> \in RecordKeys(Parse(atStart[p].doc)) \ ConfiguredKeys
    /\ <<Acct1, Cont2>> \in RecordKeys(Parse(durable.doc)) \ RecordKeys(Parse(atStart[p].doc))
    /\ Parse(durable.doc)[Acct1][Cont1] = Parse(atStart[p].doc)[Acct1][Cont1]
    /\ Parse(durable.doc)[Acct2][Cont1] = Parse(atStart[p].doc)[Acct2][Cont1]

\* The version id that mapping st holds for container key (0 if none).
StoredId(st, key) ==
  IF key \in RecordKeys(st) /\ Has(st[key[1]][key[2]], "containerVersionId")
    THEN st[key[1]][key[2]]["containerVersionId"] ELSE 0

\* C19: nothing coordinates two overlapping invocations.  Each decides from
\* the record it loaded: when both found the same stored record and fetched
\* the same new version, both told Slack.  A save writes its mapping
\* whatever the bucket holds: after a save that replaced a notified version
\* by an older one the bucket holds the older id, and a run that loads it
\* and fetches the notified version tells Slack again.
C19_NoCoordination ==
  /\ \A ca \in CheckSet("A") : \A cb \in CheckSet("B") :
       ( /\ overlap["A"] /\ overlap["B"]
         /\ ca.key = cb.key /\ ca.before = cb.before /\ ca.fetched = cb.fetched
         /\ HadVersion(ca) /\ ca.before["containerVersionId"] # ca.fetched ) =>
         Told("A", ca.key, ca.fetched) /\ Told("B", cb.key, cb.fetched)
  /\ \A s \in stale :
       /\ durable.kind = "json"
       /\ StoredId(Parse(durable.doc), s[1]) > 0
       /\ StoredId(Parse(durable.doc), s[1]) < s[2]
  /\ \A p \in Invocations : \A ch \in CheckSet(p) :
       ( /\ <<ch.key, ch.fetched>> \in stale
         /\ HadVersion(ch) /\ ch.before["containerVersionId"] < ch.fetched ) =>
         Told(p, ch.key, ch.fetched)

\* The first interleaving: two overlapping runs loaded the same record,
\* fetched the same new version, and both told Slack about it.
C19_BothNotified ==
  /\ overlap["A"] /\ overlap["B"]
  /\ \E ca \in CheckSet("A") : \E cb \in CheckSet("B") :
       /\ ca.key = cb.key /\ ca.before = cb.before /\ ca.fetched = cb.fetched
       /\ HadVersion(ca) /\ ca.before["containerVersionId"] # ca.fetched
       /\ Len(SentAt("A", ca.pos)) = 1 /\ Len(SentAt("B", cb.pos)) = 1
       /\ SentAt("A", ca.pos)[1].id = SentAt("B", cb.pos)[1].id

\* The second interleaving: one invocation told Slack about a version and
\* saved it, the other one, which had fetched the older version before,
\* saved after it, and the run that followed loaded the older id, fetched
\* the version again and told Slack about it a second time.
C19_Witness ==
  \E p \in Invocations : \E ch \in CheckSet(p) :
    /\ <<ch.key, ch.fetched>> \in stale
    /\ uploaded # <<>> /\ uploaded[1].by = p
    /\ HadVersion(ch) /\ ch.before["containerVersionId"] < ch.fetched
    /\ ch.before = uploaded[1].state[ch.key[1]][ch.key[2]]
    /\ \E q \in Invocations \ {p} : pc[q] = "done" /\ Told(q, ch.key, ch.fetched)
    /\ Len(SentAt(p, ch.pos)) = 1
    /\ SentAt(p, ch.pos)[1].id = ch.fetched

====
